---- MODULE Spec2Model ----
(***************************************************************************)
(* State-machine model of src/VoiceOperatedCamera.tsx: the React component *)
(* VoiceOperatedCamera with its camera lifecycle (startCamera/stopCamera), *)
(* the voice command handler (recognition.onresult), the self-rescheduling *)
(* detection loop (detectLoop/detect) and the speech debouncer             *)
(* (speakExpression).                                                      *)
(*                                                                         *)
(* Every `await` of the source is a suspension point: the code before it   *)
(* and the code after it are separate atomic actions, and any other        *)
(* handler may run in between (single-threaded event loop).                *)
(***************************************************************************)
EXTENDS Integers, Sequences, FiniteSets, TLC

\* ---------------------------------------------------------------- bounds

\* Number of startCamera invocations (button clicks or voice commands) in a run.
MaxStarts == 2
\* Number of expression labels a face carries (keys of resized[0].expressions).
NLabels == 2
\* Expression scores are drawn from 0..MaxScore (score/MaxScore is the probability).
MaxScore == 1
\* Largest number of words of a transcript delivered to recognition.onresult.
MaxWords == 3

\* ------------------------------------------------------------- variables

VARIABLES
    isCameraOn,            \* useState(false), line 10
    statusMessage,         \* useState("Say 'start camera' ..."), line 11
    expression,            \* useState(""), line 12
    modelsLoaded,          \* useState(false), line 13
    cocoModel,             \* useState(null), line 14
    lastSpokenExpression,  \* useRef(""), line 15
    srcObject,             \* videoRef.current.srcObject: 0 (null) or a stream id
    paused,                \* videoRef.current.paused
    canvas,                \* what is painted on canvasRef: subset of {"faces","label","objects"}
    speechCalls,           \* calls made on speechSynthesis by the last step
    loadPc,                \* position of loadModels: "loading" | "done"
    callPc,                \* per startCamera invocation: "idle" | "getUserMedia" | "play" | "done"
    closure,               \* per invocation: modelsLoaded / cocoModel captured by its render
    tracks,                \* per invocation: its stream's tracks: "none" | "live" | "stopped"
    loopPc,                \* per invocation: its detect loop: "none" | "face" | "object" | "raf" | "dead"
    transcript,            \* the transcript the recognizer delivered at mount (<<>>: none)
    lastAct,               \* history: the handler or continuation that ran last
    lastCmd,               \* history: last lifecycle command issued: "none" | "start" | "stop"
    calledWhen,            \* history: per suspended invocation, session status when it was called
    readyWhen,             \* history: per suspended invocation, were the providers ready when it was called
    prevLabel,             \* history: arg-max label of the previous non-empty frame ("" = none)
    frame                  \* history: the faces the last step received from the face provider

vars == <<isCameraOn, statusMessage, expression, modelsLoaded, cocoModel,
          lastSpokenExpression, srcObject, paused, canvas, speechCalls, loadPc,
          callPc, closure, tracks, loopPc, transcript, lastAct, lastCmd, calledWhen,
          readyWhen, prevLabel, frame>>

Calls == 1..MaxStarts
NoStream == 0

\* ------------------------------------------------ voice command matching

UpperChars == <<"A","B","C","D","E","F","G","H","I","J","K","L","M",
                "N","O","P","Q","R","S","T","U","V","W","X","Y","Z">>
LowerChars == <<"a","b","c","d","e","f","g","h","i","j","k","l","m",
                "n","o","p","q","r","s","t","u","v","w","x","y","z">>

\* String.prototype.toLowerCase, one character
LowerChar(c) ==
    IF \E i \in 1..Len(UpperChars) : UpperChars[i] = c
    THEN LowerChars[CHOOSE i \in 1..Len(UpperChars) : UpperChars[i] = c]
    ELSE c

\* String.prototype.toLowerCase
toLowerCase(s) == [i \in 1..Len(s) |-> LowerChar(s[i])]

IsSpace(c) == c \in {" ", "\t", "\n"}

RECURSIVE TrimStart(_)
TrimStart(s) ==
    IF s # <<>> /\ IsSpace(Head(s)) THEN TrimStart(Tail(s)) ELSE s

RECURSIVE TrimEnd(_)
TrimEnd(s) ==
    IF s # <<>> /\ IsSpace(s[Len(s)]) THEN TrimEnd(SubSeq(s, 1, Len(s) - 1)) ELSE s

\* String.prototype.trim: strips leading and trailing whitespace only
trim(s) == TrimEnd(TrimStart(s))

\* String.prototype.includes
includes(s, p) ==
    \E i \in 0..(Len(s) - Len(p)) : SubSeq(s, i + 1, i + Len(p)) = p

StartPhrase == <<"s","t","a","r","t"," ","c","a","m","e","r","a">>
StopPhrase  == <<"s","t","o","p"," ","c","a","m","e","r","a">>

\* line 47: transcript.trim().toLowerCase()
command(t) == toLowerCase(trim(t))

\* lines 49-50: which handler recognition.onresult invokes
Dispatch(t) ==
    IF includes(command(t), StartPhrase) THEN "startCamera"
    ELSE IF includes(command(t), StopPhrase) THEN "stopCamera"
    ELSE "none"

\* ------------------------------------------------- expression aggregation

Labels == [i \in 1..NLabels |->
             <<"neutral","happy","sad","angry","fearful","disgusted","surprised">>[i]]
Scores == 0..MaxScore
\* expressions of one face: label index (Object.keys order) -> score
ScoreMaps == [1..NLabels -> Scores]
\* resized: the faces of a frame (only resized[0] is read)
FaceResults == {<<>>} \cup {<<e>> : e \in ScoreMaps}
\* predictions of cocoModel.detect
ObjectResults == {<<>>, <<"object">>}

\* the reduce of lines 120-125 with `>=` in place of `>`
RECURSIVE ReduceFromKeepsFirst(_, _, _)
ReduceFromKeepsFirst(e, a, b) ==
    IF b > NLabels THEN a
    ELSE ReduceFromKeepsFirst(e, IF e[a] >= e[b] THEN a ELSE b, b + 1)

\* lines 120-125: Object.keys(e).reduce((a, b) => e[a] > e[b] ? a : b),
\* as the index of the selected key; Array.prototype.reduce without an
\* initial value starts with the first key as accumulator.
RECURSIVE ReduceFrom(_, _, _)
ReduceFrom(e, a, b) ==
    IF b > NLabels THEN a
    ELSE ReduceFrom(e, IF e[a] > e[b] THEN a ELSE b, b + 1)

maxExpression(e) == Labels[ReduceFrom(e, 1, 2)]
maxIndex(e) == ReduceFrom(e, 1, 2)

\* lines 126-128: the score of the selected label times 100
confidence(e) == (e[maxIndex(e)] * 100) \div MaxScore

\* ------------------------------------------------------- derived state

\* video.ended: the attached MediaStream is inactive (all tracks stopped)
videoEnded == srcObject # NoStream /\ tracks[srcObject] = "stopped"

\* startCamera invocations suspended at one of their awaits
InFlight == {i \in Calls : callPc[i] \in {"getUserMedia", "play"}}

\* CameraSession.status as far as the component has one: isCameraOn, and
\* "Starting" while a startCamera invocation is suspended (stopCamera is
\* synchronous, so "Stopping" is never observable)
status ==
    IF isCameraOn THEN "On"
    ELSE IF InFlight # {} THEN "Starting"
    ELSE "Off"

\* detect loops that are awaiting a provider or a display refresh
ActiveLoops == {l \in Calls : loopPc[l] \in {"face", "object", "raf"}}

\* streams acquired by getUserMedia whose tracks have not been stopped
LiveStreams == {i \in Calls : tracks[i] = "live"}

\* values of the expression state (the text shown under the video)
NoExpression == [text |-> "", percent |-> 0]
NoFaceDetected == [text |-> "No face detected", percent |-> 0]
ExpressionText(label, pct) == [text |-> label, percent |-> pct]

\* the three values of statusMessage
InitialStatus == "Say 'start camera' or use the buttons"

NoClosure == [modelsLoaded |-> FALSE, cocoModel |-> "null"]

Act(op, pre) == [op |-> op, pre |-> pre]

\* calledWhen is kept while an invocation is suspended at an await
Suspended(pc, cw) ==
    [i \in Calls |-> IF pc[i] \in {"getUserMedia", "play"} THEN cw[i] ELSE ""]

\* readyWhen is kept while an invocation is suspended at an await
SuspendedReady(pc, rw) ==
    [i \in Calls |-> pc[i] \in {"getUserMedia", "play"} /\ rw[i]]

\* ------------------------------------------------------------------ Init

Init ==
    /\ isCameraOn = FALSE
    /\ statusMessage = InitialStatus
    /\ expression = NoExpression
    /\ modelsLoaded = FALSE
    /\ cocoModel = "null"
    /\ lastSpokenExpression = ""
    /\ srcObject = NoStream
    /\ paused = TRUE
    /\ canvas = {}
    /\ speechCalls = <<>>
    /\ loadPc = "loading"
    /\ callPc = [i \in Calls |-> "idle"]
    /\ closure = [i \in Calls |-> NoClosure]
    /\ tracks = [i \in Calls |-> "none"]
    /\ loopPc = [i \in Calls |-> "none"]
    /\ transcript = <<>>
    /\ lastAct = Act("init", "")
    /\ lastCmd = "none"
    /\ calledWhen = [i \in Calls |-> ""]
    /\ readyWhen = [i \in Calls |-> FALSE]
    /\ prevLabel = ""
    /\ frame = <<>>

\* ------------------------------------------------------------ loadModels

\* lines 22-30: all model loads resolve; both state setters run
loadModelsResolved ==
    /\ loadPc = "loading"
    /\ loadPc' = "done"
    /\ cocoModel' = "coco"
    /\ modelsLoaded' = TRUE

\* lines 31-33: a load rejects; the catch only logs
loadModelsRejected ==
    /\ loadPc = "loading"
    /\ loadPc' = "done"
    /\ UNCHANGED <<cocoModel, modelsLoaded>>

LoadModels ==
    /\ \/ loadModelsResolved /\ lastAct' = Act("loadModels", "resolved")
       \/ loadModelsRejected /\ lastAct' = Act("loadModels", "rejected")
    /\ speechCalls' = <<>>
    /\ frame' = <<>>
    /\ UNCHANGED transcript
    /\ UNCHANGED <<isCameraOn, statusMessage, expression, lastSpokenExpression,
                   srcObject, paused, canvas, callPc, closure, tracks, loopPc,
                   lastCmd, calledWhen, readyWhen, prevLabel>>

\* ----------------------------------------------------------- startCamera

\* the values of modelsLoaded and cocoModel that detect() reads in an
\* invocation: a button click runs the startCamera of the latest render;
\* recognition.onresult was installed by the mount effect (deps []), so it
\* runs the startCamera of the first render, whose detectLoop closes over
\* modelsLoaded = false and cocoModel = null (lines 13-14, 39-55).
Captured(src) ==
    IF src = "button"
    THEN [modelsLoaded |-> modelsLoaded, cocoModel |-> cocoModel]
    ELSE NoClosure

\* lines 66-68: startCamera up to `await getUserMedia`; no guard on isCameraOn
startCamera(i, src) ==
    /\ callPc[i] = "idle"
    /\ callPc' = [callPc EXCEPT ![i] = "getUserMedia"]
    /\ closure' = [closure EXCEPT ![i] = Captured(src)]
    /\ UNCHANGED <<isCameraOn, statusMessage, expression, modelsLoaded, cocoModel,
                   lastSpokenExpression, srcObject, paused, canvas, loadPc,
                   tracks, loopPc>>

\* the next unused invocation slot
NextCall == CHOOSE i \in Calls : callPc[i] = "idle" /\ \A j \in 1..(i - 1) : callPc[j] # "idle"

StartCamera(src) ==
    /\ \E i \in Calls : callPc[i] = "idle"
    /\ startCamera(NextCall, src)
    /\ speechCalls' = <<>>
    /\ frame' = <<>>
    /\ lastAct' = Act("startCamera", status)
    /\ lastCmd' = "start"
    /\ calledWhen' = [calledWhen EXCEPT ![NextCall] = status]
    /\ readyWhen' = [readyWhen EXCEPT ![NextCall] = modelsLoaded /\ cocoModel # "null"]
    /\ UNCHANGED prevLabel

\* lines 68-71: getUserMedia resolved with a new stream; it replaces whatever
\* srcObject held (the old stream's tracks are not stopped) and play() is
\* called. Assigning srcObject runs the media element load algorithm, which
\* rejects the pending play() promise of an earlier invocation (its catch
\* only logs); play() then clears paused.
gotStream(i) ==
    /\ callPc[i] = "getUserMedia"
    /\ tracks' = [tracks EXCEPT ![i] = "live"]
    /\ srcObject' = i
    /\ paused' = FALSE
    /\ callPc' = [j \in Calls |->
                    IF j = i THEN "play"
                    ELSE IF callPc[j] = "play" THEN "done"
                    ELSE callPc[j]]
    /\ UNCHANGED <<isCameraOn, statusMessage, expression, modelsLoaded, cocoModel,
                   lastSpokenExpression, canvas, loadPc, closure, loopPc>>

\* noStream with the catch falling through to lines 72-73
noStreamFallsThrough(i) ==
    /\ callPc[i] = "getUserMedia"
    /\ callPc' = [callPc EXCEPT ![i] = "done"]
    /\ isCameraOn' = TRUE
    /\ statusMessage' = "Camera started"
    /\ UNCHANGED <<expression, modelsLoaded, cocoModel, lastSpokenExpression,
                   srcObject, paused, canvas, loadPc, closure, tracks, loopPc>>

\* lines 68, 76-78: getUserMedia rejected (permission denied, no device)
noStream(i) ==
    /\ callPc[i] = "getUserMedia"
    /\ callPc' = [callPc EXCEPT ![i] = "done"]
    /\ UNCHANGED <<isCameraOn, statusMessage, expression, modelsLoaded, cocoModel,
                   lastSpokenExpression, srcObject, paused, canvas, loadPc,
                   closure, tracks, loopPc>>

GetUserMedia ==
    \E i \in Calls :
        /\ \/ gotStream(i) /\ lastAct' = Act("getUserMedia", "resolved")
           \/ noStream(i) /\ lastAct' = Act("getUserMedia", "rejected")
        /\ speechCalls' = <<>>
        /\ frame' = <<>>
        /\ UNCHANGED transcript
        /\ calledWhen' = Suspended(callPc', calledWhen)
        /\ readyWhen' = SuspendedReady(callPc', readyWhen)
        /\ UNCHANGED <<lastCmd, prevLabel>>

\* line 105 without its two provider conditions
detectRunsWithoutProviders(l) ==
    /\ ~paused
    /\ ~videoEnded

\* line 105: the condition under which detect() goes on to call the providers,
\* read from the closure of invocation l
detectRuns(l) ==
    /\ closure[l].modelsLoaded
    /\ closure[l].cocoModel # "null"
    /\ ~paused
    /\ ~videoEnded

\* lines 104-111: one call of detect(): return, or issue the face-perception
\* call and suspend on it
detect(l) ==
    loopPc' = [loopPc EXCEPT ![l] = IF detectRuns(l) THEN "face" ELSE "dead"]

\* lines 72-74, 96-105, 157: play() resolved; the state setters run and
\* detectLoop() sizes the canvas to the video (line 102: assigning a canvas
\* its width and height clears it) and makes its first call of detect()
played(i) ==
    /\ callPc[i] = "play"
    /\ callPc' = [callPc EXCEPT ![i] = "done"]
    /\ isCameraOn' = TRUE
    /\ statusMessage' = "Camera started"
    /\ canvas' = {}
    /\ detect(i)
    /\ UNCHANGED <<expression, modelsLoaded, cocoModel, lastSpokenExpression,
                   srcObject, paused, loadPc, closure, tracks>>

\* lines 71, 76-78: play() rejected; the catch only logs, srcObject stays set
notPlayed(i) ==
    /\ callPc[i] = "play"
    /\ callPc' = [callPc EXCEPT ![i] = "done"]
    /\ UNCHANGED <<isCameraOn, statusMessage, expression, modelsLoaded, cocoModel,
                   lastSpokenExpression, srcObject, paused, canvas, loadPc,
                   closure, tracks, loopPc>>

Play ==
    \E i \in Calls :
        /\ \/ /\ played(i)
              /\ lastAct' = Act("play", "resolved")
              /\ prevLabel' = IF isCameraOn THEN prevLabel ELSE ""
           \/ /\ notPlayed(i)
              /\ lastAct' = Act("play", "rejected")
              /\ UNCHANGED prevLabel
        /\ speechCalls' = <<>>
        /\ frame' = <<>>
        /\ UNCHANGED transcript
        /\ calledWhen' = Suspended(callPc', calledWhen)
        /\ readyWhen' = SuspendedReady(callPc', readyWhen)
        /\ UNCHANGED lastCmd

\* ------------------------------------------------------------ stopCamera

\* stopCamera without line 89 (the debounce state is not reset)
stopCameraKeepsDebounce ==
    /\ IF srcObject # NoStream
       THEN /\ tracks' = [tracks EXCEPT ![srcObject] = "stopped"]
            /\ srcObject' = NoStream
            /\ paused' = TRUE
            /\ callPc' = [j \in Calls |-> IF callPc[j] = "play" THEN "done" ELSE callPc[j]]
       ELSE UNCHANGED <<tracks, srcObject, paused, callPc>>
    /\ isCameraOn' = FALSE
    /\ statusMessage' = "Camera stopped"
    /\ expression' = NoExpression
    /\ UNCHANGED lastSpokenExpression
    /\ canvas' = {}
    /\ UNCHANGED <<modelsLoaded, cocoModel, loadPc, closure, loopPc>>

\* lines 81-94: stopCamera, synchronous and unguarded. Clearing srcObject
\* runs the media element load algorithm: the element becomes paused and a
\* pending play() promise is rejected (the invocation's catch only logs).
stopCamera ==
    /\ IF srcObject # NoStream
       THEN /\ tracks' = [tracks EXCEPT ![srcObject] = "stopped"]
            /\ srcObject' = NoStream
            /\ paused' = TRUE
            /\ callPc' = [j \in Calls |-> IF callPc[j] = "play" THEN "done" ELSE callPc[j]]
       ELSE UNCHANGED <<tracks, srcObject, paused, callPc>>
    /\ isCameraOn' = FALSE
    /\ statusMessage' = "Camera stopped"
    /\ expression' = NoExpression
    /\ lastSpokenExpression' = ""
    /\ canvas' = {}
    /\ UNCHANGED <<modelsLoaded, cocoModel, loadPc, closure, loopPc>>

StopCamera ==
    /\ stopCamera
    /\ speechCalls' = <<>>
    /\ frame' = <<>>
    /\ lastAct' = Act("stopCamera", status)
    /\ lastCmd' = "stop"
    /\ prevLabel' = ""
    /\ calledWhen' = Suspended(callPc', calledWhen)
    /\ readyWhen' = SuspendedReady(callPc', readyWhen)

\* lines 206-209: the two buttons
ClickStart == StartCamera("button") /\ UNCHANGED transcript
ClickStop == StopCamera /\ UNCHANGED transcript

\* ------------------------------------------------------- voice commands

\* lines 46-51: recognition.onresult for one transcript
onresult(t) ==
    CASE Dispatch(t) = "startCamera" -> StartCamera("voice")
      [] Dispatch(t) = "stopCamera" -> StopCamera
      [] OTHER -> /\ lastAct' = Act("ignored", "")
                  /\ speechCalls' = <<>>
                  /\ frame' = <<>>
                  /\ UNCHANGED <<isCameraOn, statusMessage, expression, modelsLoaded,
                                 cocoModel, lastSpokenExpression, srcObject, paused,
                                 canvas, loadPc, callPc, closure, tracks, loopPc,
                                 lastCmd, calledWhen, readyWhen, prevLabel>>

Chars(w) ==
    CASE w = "Start" -> <<"S","t","a","r","t">>
      [] w = "stop" -> <<"s","t","o","p">>
      [] w = "STOP" -> <<"S","T","O","P">>
      [] w = "Camera" -> <<"C","a","m","e","r","a">>
      [] w = "camera" -> <<"c","a","m","e","r","a">>
      [] w = "please" -> <<"p","l","e","a","s","e">>
      [] w = "now" -> <<"n","o","w">>
      [] w = "hello" -> <<"h","e","l","l","o">>
      [] w = "world" -> <<"w","o","r","l","d">>

\* the words of ws joined by the separator sep
RECURSIVE Join(_, _)
Join(ws, sep) ==
    IF ws = <<>> THEN <<>>
    ELSE IF Len(ws) = 1 THEN Chars(ws[1])
    ELSE Chars(ws[1]) \o sep \o Join(Tail(ws), sep)

\* transcripts the recognizer delivers while the component runs
VoiceInputs ==
    { Join(<<"please", "Start", "Camera">>, <<" ">>),
      Join(<<"please", "STOP", "camera", "now">>, <<" ">>),
      Join(<<"hello", "world">>, <<" ">>) }

Voice == \E t \in VoiceInputs : onresult(t) /\ UNCHANGED transcript

\* the words a transcript is made of, the gaps between them and its margins
Words == {"Start", "stop", "Camera"}
Gaps == {<<" ">>, <<" ", " ">>}
Margins == {<<>>, <<" ">>}

\* the transcripts of exactly n words
RECURSIVE Phrases(_)
Phrases(n) ==
    IF n = 0 THEN {<<>>}
    ELSE IF n = 1 THEN {Chars(w) : w \in Words}
    ELSE {p \o g \o Chars(w) : p \in Phrases(n - 1), g \in Gaps, w \in Words}

Transcripts ==
    UNION {{a \o p \o b : a \in Margins, b \in Margins, p \in Phrases(n)} : n \in 0..MaxWords}

\* the recognizer has delivered a transcript to a freshly mounted component
InitVoice ==
    /\ isCameraOn = FALSE
    /\ statusMessage = InitialStatus
    /\ expression = NoExpression
    /\ modelsLoaded = FALSE
    /\ cocoModel = "null"
    /\ lastSpokenExpression = ""
    /\ srcObject = NoStream
    /\ paused = TRUE
    /\ canvas = {}
    /\ speechCalls = <<>>
    /\ loadPc = "loading"
    /\ callPc = [i \in Calls |-> "idle"]
    /\ closure = [i \in Calls |-> NoClosure]
    /\ tracks = [i \in Calls |-> "none"]
    /\ loopPc = [i \in Calls |-> "none"]
    /\ transcript \in Transcripts
    /\ lastAct = Act("recognized", "")
    /\ lastCmd = "none"
    /\ calledWhen = [i \in Calls |-> ""]
    /\ readyWhen = [i \in Calls |-> FALSE]
    /\ prevLabel = ""
    /\ frame = <<>>

\* lines 46-51: the handler runs on the delivered transcript
Recognized ==
    /\ lastAct.op = "recognized"
    /\ onresult(transcript)
    /\ UNCHANGED transcript

NextVoice == Recognized

SpecVoice == InitVoice /\ [][NextVoice]_vars

\* -------------------------------------------------------- detection loop

\* lines 57-64: speakExpression
speakExpression(text) ==
    IF text # lastSpokenExpression
    THEN /\ speechCalls' = << <<"cancel", "">>, <<"speak", text>> >>
         /\ lastSpokenExpression' = text
    ELSE /\ speechCalls' = <<>>
         /\ UNCHANGED lastSpokenExpression

\* facesDetected without line 138 (an empty frame leaves the debounce state)
facesDetectedNoReset(l, resized) ==
    /\ loopPc[l] = "face"
    /\ IF Len(resized) > 0
       THEN /\ canvas' = {"faces", "label"}
            /\ expression' = ExpressionText(maxExpression(resized[1]), confidence(resized[1]))
            /\ speakExpression(maxExpression(resized[1]))
       ELSE /\ canvas' = {}
            /\ expression' = NoFaceDetected
            /\ UNCHANGED lastSpokenExpression
            /\ speechCalls' = <<>>
    /\ loopPc' = [loopPc EXCEPT ![l] = "object"]
    /\ UNCHANGED <<isCameraOn, statusMessage, modelsLoaded, cocoModel, srcObject,
                   paused, loadPc, callPc, closure, tracks>>

\* lines 112-142: the face-perception call of loop l resolved with `resized`;
\* the overlay is cleared and redrawn, the aggregator runs, and the
\* object-perception call is issued. No check of the camera state is made.
facesDetected(l, resized) ==
    /\ loopPc[l] = "face"
    /\ IF Len(resized) > 0
       THEN /\ canvas' = {"faces", "label"}
            /\ expression' = ExpressionText(maxExpression(resized[1]), confidence(resized[1]))
            /\ speakExpression(maxExpression(resized[1]))
       ELSE /\ canvas' = {}
            /\ expression' = NoFaceDetected
            /\ lastSpokenExpression' = ""
            /\ speechCalls' = <<>>
    /\ loopPc' = [loopPc EXCEPT ![l] = "object"]
    /\ UNCHANGED <<isCameraOn, statusMessage, modelsLoaded, cocoModel, srcObject,
                   paused, loadPc, callPc, closure, tracks>>

\* lines 108-111: the face-perception call rejected; detect() has no
\* try/catch, so its promise rejects and nothing reschedules the loop
facesRejected(l) ==
    /\ loopPc[l] = "face"
    /\ loopPc' = [loopPc EXCEPT ![l] = "dead"]
    /\ speechCalls' = <<>>
    /\ UNCHANGED <<isCameraOn, statusMessage, expression, modelsLoaded, cocoModel,
                   lastSpokenExpression, srcObject, paused, canvas, loadPc,
                   callPc, closure, tracks>>

\* lines 142-154: the object-perception call resolved; the boxes are drawn
\* over the frame and the next detect() is requested
objectsDetected(l, predictions) ==
    /\ loopPc[l] = "object"
    /\ canvas' = canvas \cup (IF Len(predictions) > 0 THEN {"objects"} ELSE {})
    /\ loopPc' = [loopPc EXCEPT ![l] = "raf"]
    /\ speechCalls' = <<>>
    /\ UNCHANGED <<isCameraOn, statusMessage, expression, modelsLoaded, cocoModel,
                   lastSpokenExpression, srcObject, paused, loadPc, callPc,
                   closure, tracks>>

\* line 142: the object-perception call rejected
objectsRejected(l) ==
    /\ loopPc[l] = "object"
    /\ loopPc' = [loopPc EXCEPT ![l] = "dead"]
    /\ speechCalls' = <<>>
    /\ UNCHANGED <<isCameraOn, statusMessage, expression, modelsLoaded, cocoModel,
                   lastSpokenExpression, srcObject, paused, canvas, loadPc,
                   callPc, closure, tracks>>

\* lines 154, 104-111: the display refresh calls detect() again
animationFrame(l) ==
    /\ loopPc[l] = "raf"
    /\ detect(l)
    /\ speechCalls' = <<>>
    /\ UNCHANGED <<isCameraOn, statusMessage, expression, modelsLoaded, cocoModel,
                   lastSpokenExpression, srcObject, paused, canvas, loadPc,
                   callPc, closure, tracks>>

FaceProvider ==
    \E l \in Calls :
        /\ \/ \E resized \in FaceResults :
                /\ facesDetected(l, resized)
                /\ lastAct' = IF Len(resized) > 0 THEN Act("faces", "")
                                                  ELSE Act("noFaces", lastSpokenExpression)
                /\ prevLabel' = IF Len(resized) > 0 THEN maxExpression(resized[1]) ELSE ""
                /\ frame' = resized
           \/ /\ facesRejected(l)
              /\ lastAct' = Act("facesRejected", "")
              /\ frame' = <<>>
              /\ UNCHANGED prevLabel
        /\ UNCHANGED transcript
        /\ UNCHANGED <<lastCmd, calledWhen, readyWhen>>

ObjectProvider ==
    \E l \in Calls :
        /\ \/ \E predictions \in ObjectResults :
                /\ objectsDetected(l, predictions)
                /\ lastAct' = Act("objects", "")
           \/ /\ objectsRejected(l)
              /\ lastAct' = Act("objectsRejected", "")
        /\ frame' = <<>>
        /\ UNCHANGED transcript
        /\ UNCHANGED <<lastCmd, calledWhen, readyWhen, prevLabel>>

AnimationFrame ==
    \E l \in Calls :
        /\ animationFrame(l)
        /\ lastAct' = Act("animationFrame", "")
        /\ frame' = <<>>
        /\ UNCHANGED transcript
        /\ UNCHANGED <<lastCmd, calledWhen, readyWhen, prevLabel>>

\* --------------------------------------------------------- specification

Next ==
    \/ LoadModels
    \/ ClickStart
    \/ ClickStop
    \/ Voice
    \/ GetUserMedia
    \/ Play
    \/ FaceProvider
    \/ ObjectProvider
    \/ AnimationFrame

Spec == Init /\ [][Next]_vars

\* The browser runs the continuation of every promise that settles and
\* calls every requested animation frame callback: getUserMedia and play()
\* settle, a provider call settles, the display refreshes.
SpecFair ==
    /\ Init /\ [][Next]_vars
    /\ WF_vars(GetUserMedia)
    /\ WF_vars(Play)
    /\ WF_vars(FaceProvider)
    /\ WF_vars(ObjectProvider)
    /\ WF_vars(AnimationFrame)

\* ------------------------------------------------------------- claims

\* C1: at most one detection loop is active at any time, whatever the
\* sequence of start and stop commands and of their completions.
C1_AtMostOneLoop == Cardinality(ActiveLoops) <= 1

\* C2: a start called while the session is On or Starting is a no-op: the
\* invocation acquires no capture stream and does not replace the stream
\* attached to the video surface.
C2_StartWhileActiveIsNoOp ==
    \A i \in Calls :
        calledWhen[i] \in {"On", "Starting"} => tracks[i] = "none" /\ srcObject # i

\* C3: a stop called while the session is Off leaves the session status, the
\* stream handle, the status text, the expression text, the debounce state
\* and the overlay unchanged.
C3_StopWhenOffIsNoOp ==
    [][(lastAct'.op = "stopCamera" /\ status = "Off")
         => UNCHANGED <<isCameraOn, srcObject, statusMessage, expression,
                        lastSpokenExpression, canvas>>]_vars

\* the continuations of detect(): provider results and display refreshes
LoopSteps == {"faces", "noFaces", "facesRejected", "objects", "objectsRejected",
              "animationFrame"}

\* C4: between a stop and the next start, the detection loop that was
\* scheduled before the stop issues no provider call, draws nothing on the
\* overlay, does not update the expression text, does not write the debounce
\* state and speaks nothing. (While the last command is a stop and the camera
\* is off, every loop still alive was started before that stop.)
C4_NoFramesAfterStop ==
    [][(lastCmd = "stop" /\ ~isCameraOn /\ lastAct'.op \in LoopSteps)
         => /\ \A l \in Calls : loopPc'[l] \in {"face", "object"} => loopPc'[l] = loopPc[l]
            /\ canvas' \subseteq canvas
            /\ expression' = expression
            /\ lastSpokenExpression' = lastSpokenExpression
            /\ speechCalls' = <<>>]_vars

\* C5: a stop called on an On session stops the tracks of the attached
\* stream, detaches it, blanks the overlay, empties the expression text,
\* resets the debounce state to its initial value and turns the camera off.
C5_StopReleasesAndResets ==
    [][(lastAct'.op = "stopCamera" /\ isCameraOn)
         => /\ \A i \in Calls : srcObject = i => tracks'[i] = "stopped"
            /\ srcObject' = NoStream
            /\ canvas' = {}
            /\ expression' = NoExpression
            /\ lastSpokenExpression' = ""
            /\ ~isCameraOn']_vars

\* C5 witness: a stop has just run on an On session whose stream it released.
C5_Witness ==
    /\ lastAct = Act("stopCamera", "On")
    /\ \E i \in Calls : tracks[i] = "stopped"

\* C6: at most one capture session is active, On implies a stream is
\* attached to the video surface, and Off implies none is.
C6_SessionInvariant ==
    /\ Cardinality(LiveStreams) <= 1
    /\ status = "On" => srcObject # NoStream
    /\ status = "Off" => srcObject = NoStream

\* C7: on a non-empty frame "You look {label}" is spoken, after a cancel, if
\* and only if the frame's arg-max label differs from the previous frame's,
\* the first frame after a start, a stop or an empty frame counting as a
\* change from none.
C7_SpeakOnLabelChange ==
    [][lastAct'.op = "faces"
         => /\ prevLabel' # prevLabel
                => speechCalls' = << <<"cancel", "">>, <<"speak", prevLabel'>> >>
            /\ prevLabel' = prevLabel => speechCalls' = <<>>]_vars

\* C8: an empty face result sets the text to "No face detected", resets the
\* debounce state to none and speaks nothing, whatever the debounce state was.
C8_EmptyFrameResets ==
    lastAct.op = "noFaces"
        => /\ expression = NoFaceDetected
           /\ lastSpokenExpression = ""
           /\ speechCalls = <<>>

\* C8 witness: an empty frame was processed while a label was remembered.
C8_Witness == lastAct.op = "noFaces" /\ lastAct.pre # ""

\* a transcript with every run of whitespace collapsed to one space
RECURSIVE CollapseSpaces(_)
CollapseSpaces(s) ==
    IF Len(s) < 2 THEN s
    ELSE IF IsSpace(s[1]) /\ IsSpace(s[2]) THEN CollapseSpaces(Tail(s))
    ELSE <<IF IsSpace(s[1]) THEN " " ELSE s[1]>> \o CollapseSpaces(Tail(s))

\* the transcript normalized for case and whitespace
Normalized(t) == toLowerCase(CollapseSpaces(trim(t)))

\* C9: the handler starts the camera if the transcript, normalized for
\* letter case and whitespace, contains "start camera", otherwise stops it
\* if it contains "stop camera", and otherwise does nothing.
C9_VoiceClassification ==
    lastAct.op \in {"startCamera", "stopCamera", "ignored"}
        => lastAct.op = (IF includes(Normalized(transcript), StartPhrase) THEN "startCamera"
                         ELSE IF includes(Normalized(transcript), StopPhrase) THEN "stopCamera"
                         ELSE "ignored")

\* C10: when a provider call rejects, the loop it belongs to is not ended:
\* it goes on to the next provider call or to the next display refresh.
C10_LoopSurvivesRejection ==
    [][\A l \in Calls :
          (lastAct'.op \in {"facesRejected", "objectsRejected"} /\ loopPc'[l] # loopPc[l])
             => loopPc'[l] \in {"object", "raf"}]_vars

C12_FalsePreconditionReschedules ==
    [][\A l \in Calls :
          (/\ loopPc[l] \in {"none", "raf"} /\ loopPc'[l] # loopPc[l]
           /\ ~detectRuns(l)')
             => loopPc'[l] = "raf"]_vars

\* the largest score of a face's expressions, and the first and the last
\* label index (Object.keys order) that carries it
TopScore(e) == CHOOSE m \in Scores : (\E i \in 1..NLabels : e[i] = m) /\ (\A i \in 1..NLabels : e[i] <= m)
FirstTop(e) == CHOOSE i \in 1..NLabels : e[i] = TopScore(e) /\ \A j \in 1..(i - 1) : e[j] # TopScore(e)
LastTop(e) == CHOOSE i \in 1..NLabels : e[i] = TopScore(e) /\ \A j \in (i + 1)..NLabels : e[j] # TopScore(e)

\* C13 as stated: on a non-empty frame the aggregator shows a label of
\* maximum score of the first face, and among labels sharing the maximum it
\* shows the earliest in scan order.
C13_EarliestTopLabel ==
    lastAct.op = "faces"
        => /\ expression.text = Labels[FirstTop(frame[1])]
           /\ expression.percent = (TopScore(frame[1]) * 100) \div MaxScore

\* C13 amended: on a non-empty frame the aggregator shows a label of maximum
\* score of the first face, and among labels sharing the maximum it shows
\* the latest in scan order.
C13_LatestTopLabel ==
    lastAct.op = "faces"
        => /\ expression.text = Labels[LastTop(frame[1])]
           /\ expression.percent = (TopScore(frame[1]) * 100) \div MaxScore

\* C13 witness: a frame whose first face has two labels of maximum score
\* has been aggregated.
C13_Witness ==
    /\ lastAct.op = "faces"
    /\ FirstTop(frame[1]) # LastTop(frame[1])

\* C14: once model loading has failed, no detection loop ever issues a
\* provider call or waits for a refresh, and nothing is drawn on the overlay,
\* while a start that completes still turns the camera on and a stop still
\* turns it off.
C14_DetectionDisabled ==
    (loadPc = "done" /\ ~modelsLoaded)
        => /\ ActiveLoops = {}
           /\ canvas = {}
           /\ lastAct = Act("play", "resolved") => isCameraOn
           /\ lastAct.op = "stopCamera" => ~isCameraOn

\* C14 witness: after the models failed to load, the camera was on with a
\* stream attached and a stop has turned it off and released the stream.
C14_Witness ==
    /\ loadPc = "done" /\ ~modelsLoaded
    /\ lastAct = Act("stopCamera", "On")
    /\ \E i \in Calls : tracks[i] = "stopped"
    /\ ~isCameraOn

\* C15: a start issued while the session is Off and the providers are ready
\* turns the camera on and its detection loop issues the face-perception
\* call as soon as play() has resolved, whether the start came from the
\* button or from the voice handler installed at mount.
C15_VoiceStartRunsLoop ==
    [][\A i \in Calls :
          (/\ callPc[i] = "play" /\ callPc'[i] = "done"
           /\ lastAct' = Act("play", "resolved")
           /\ calledWhen[i] = "Off" /\ readyWhen[i])
             => isCameraOn' /\ loopPc'[i] = "face"]_vars

\* C16: provider calls never overlap: at most one provider call (face or
\* object perception) is outstanding at any time.
C16_OneProviderCallOutstanding ==
    Cardinality({l \in Calls : loopPc[l] \in {"face", "object"}}) <= 1

\* the steps in which a provider call rejects
Rejections == {"facesRejected", "objectsRejected"}

\* C17: if no provider call rejects and from some point on stop is the last
\* command issued (no start follows it), then from some point on no detect
\* iteration is in flight and none is scheduled.
C17_LoopTerminatesAfterStop ==
    ([](lastAct.op \notin Rejections) /\ <>[](lastCmd = "stop"))
        => <>[](ActiveLoops = {})

\* C18: when getUserMedia rejects, the status text changes (to report the
\* failure) and the acquisition is not retried: no invocation calls
\* getUserMedia in that step.
C18_FailureReported ==
    [][lastAct' = Act("getUserMedia", "rejected")
         => /\ statusMessage' # statusMessage
            /\ \A j \in Calls : callPc'[j] = "getUserMedia" => callPc[j] = "getUserMedia"]_vars

\* C19: when stop is the last command issued and no startCamera invocation
\* is still suspended at an await, the camera is off, no stream is attached
\* to the video and no detection loop can pass its next precondition check.
C19_StopIsFinal ==
    (lastCmd = "stop" /\ InFlight = {})
        => /\ ~isCameraOn
           /\ srcObject = NoStream
           /\ \A l \in ActiveLoops : ~detectRuns(l)

\* C20: no capture stream is leaked: every stream whose tracks are live is
\* the one attached to the video, and after a stop with no startCamera
\* invocation pending no stream has live tracks.
C20_NoStreamLeak ==
    /\ \A i \in LiveStreams : srcObject = i
    /\ (lastCmd = "stop" /\ InFlight = {}) => LiveStreams = {}

====
